---- MODULE Spec2Model ----
(***************************************************************************)
(* Model of main.py: the Result Condenser (extract_key_info), the Turn     *)
(* Processor (chatbot) and the Streamlit chat handler around the one-node  *)
(* graph.  Text is a sequence of one-character strings, so that split,     *)
(* strip, slicing and join are computed character by character.            *)
(***************************************************************************)
EXTENDS Integers, Sequences, FiniteSets, TLC

VARIABLES
    search_result,            \* extract_key_info: its argument
    out1,                     \* extract_key_info(search_result)
    out2,                     \* extract_key_info(out1)
    cpc,                      \* position of the condenser run
    stateMessages,            \* chatbot: state["messages"]
    pc,                       \* chatbot: position in the function body
    user_question,            \* chatbot local (a Python value)
    optimized_search_result,  \* chatbot local (text)
    system_prompt,            \* chatbot local (the f-string's parts)
    lc_response,              \* chatbot local (what llm.invoke returned)
    content,                  \* chatbot local (a Python value)
    returned,                 \* chatbot: the "messages" of the returned dict
    callLog,                  \* calls made to search / llm in this invocation
    llmArg,                   \* the argument llm.invoke received
    lc_messages,              \* st.session_state.lc_messages
    uiPc,                     \* position of the Streamlit script run
    before,                   \* history: lc_messages when the last input came
    submitted                 \* history: the last user_input (<<>> if none)

condVars == <<search_result, out1, out2, cpc>>
botVars  == <<stateMessages, pc, user_question, optimized_search_result,
              system_prompt, lc_response, content, returned, callLog,
              llmArg>>
uiVars   == <<lc_messages, uiPc, before, submitted>>
vars     == <<condVars, botVars, uiVars>>

----------------------------------------------------------------------------
(* Text: Python str as a sequence of characters *)

Period == "."
Space  == " "

Rep(c, n) == [i \in 1..n |-> c]

IsSpace(c) == c = Space

MinOf(S) == CHOOSE x \in S : \A y \in S : x <= y

\* s[:n]
Take(s, n) == SubSeq(s, 1, IF Len(s) < n THEN Len(s) ELSE n)

\* s.strip()
StripNoop(s) == s
Strip(s) ==
    LET ns == {i \in 1..Len(s) : ~IsSpace(s[i])}
    IN  IF ns = {} THEN <<>>
        ELSE LET first == MinOf(ns)
                 last  == Len(s) + 1 - MinOf({Len(s) + 1 - i : i \in ns})
             IN  SubSeq(s, first, last)

\* s.split('.'): the fragments between periods, at least one
Split(s) ==
    LET P      == {i \in 1..Len(s) : s[i] = Period}
        cuts   == {0} \cup P
        End(c) == MinOf({p \in P : p > c} \cup {Len(s) + 1})
        Nth(k) == CHOOSE c \in cuts : Cardinality({x \in cuts : x < c}) = k - 1
    IN  [k \in 1..Cardinality(cuts) |-> SubSeq(s, Nth(k) + 1, End(Nth(k)) - 1)]

\* sep.join(parts)
RECURSIVE Join(_, _)
Join(parts, sep) ==
    IF parts = <<>> THEN <<>>
    ELSE IF Len(parts) = 1 THEN parts[1]
    ELSE parts[1] \o sep \o Join(Tail(parts), sep)

----------------------------------------------------------------------------
(* Result Condenser *)

MinSentenceLen == 20
MaxSentences   == 5
FallbackChars  == 500

\* the list comprehension of line 43
RECURSIVE SentencesAtLeast(_)
SentencesAtLeast(frags) ==
    IF frags = <<>> THEN <<>>
    ELSE LET s == Strip(Head(frags))
         IN  IF Len(s) >= MinSentenceLen
             THEN <<s>> \o SentencesAtLeast(Tail(frags))
             ELSE SentencesAtLeast(Tail(frags))

RECURSIVE Sentences(_)
Sentences(frags) ==
    IF frags = <<>> THEN <<>>
    ELSE LET s == Strip(Head(frags))
         IN  IF Len(s) > MinSentenceLen
             THEN <<s>> \o Sentences(Tail(frags))
             ELSE Sentences(Tail(frags))

extract_key_info(text) ==
    LET sentences     == Sentences(Split(text))
        key_sentences == Take(sentences, MaxSentences)
    IN  IF key_sentences # <<>>
        THEN Join(key_sentences, <<Period, Space>>) \o <<Period>>
        ELSE Take(text, FallbackChars)

----------------------------------------------------------------------------
(* Inputs of the condenser run: texts built from a few blocks *)

MaxPieces == 3

A19   == Rep("a", 19)
A20   == Rep("a", 20)
A21   == Rep("a", 21)
B22   == Rep("b", 22)
Pad   == Rep(Space, 499)
Six   == Rep("c", 21) \o <<Period>> \o Rep("d", 21) \o <<Period>> \o Rep("e", 21) \o <<Period>>

Blocks == {A19, A20, A21, B22, <<Period>>, <<Space>>, Pad, Six}

RECURSIVE Flatten(_)
Flatten(ps) == IF ps = <<>> THEN <<>> ELSE Head(ps) \o Flatten(Tail(ps))

RawTexts == {Flatten(ps) : ps \in UNION {[1..n -> Blocks] : n \in 0..MaxPieces}}

----------------------------------------------------------------------------
(* Python values and messages *)

\* a Python value: its type and, for str and int, its text
PyStr(s) == [t |-> "str", v |-> s]
PyInt(digits) == [t |-> "int", v |-> digits]
PyNone == [t |-> "NoneType", v |-> <<>>]

NoneText ==
    <<"N","o","n","e">>

\* str(x)
Str(x) == IF x.t = "NoneType" THEN NoneText ELSE x.v

\* x[:100] is defined for a str; for None or an int it raises TypeError
Sliceable(x) == x.t = "str"

\* an element of state["messages"]: a message object, a dict or any other value
Obj(kind, role, has, c) == [kind |-> kind, role |-> role, has |-> has, content |-> c]
HumanMessage(c) == Obj("message", "user", TRUE, c)
AIMessage(c)    == Obj("message", "assistant", TRUE, c)
Dict(c)         == Obj("dict", "", TRUE, c)
DictNoContent   == Obj("dict", "", FALSE, PyNone)
RawValue(x)     == Obj("value", "", FALSE, x)
NoResponse      == Obj("none", "", FALSE, PyNone)

\* hasattr(m, "content")
HasContentAttr(m) == m.kind = "message"

Greeting ==
    <<"H","i","!"," ","A","s","k"," ","m","e"," ","a","n","y","t","h","i","n",
      "g"," ","a","n","d"," ","I","'","l","l"," ","s","e","a","r","c","h"," ",
      "f","o","r"," ","t","h","e"," ","l","a","t","e","s","t"," ","i","n","f",
      "o","r","m","a","t","i","o","n",".">>

SearchUnavailable ==
    <<"S","e","a","r","c","h"," ","t","e","m","p","o","r","a","r","i","l","y",
      " ","u","n","a","v","a","i","l","a","b","l","e",".">>

RephraseFallback ==
    <<"I"," ","e","n","c","o","u","n","t","e","r","e","d"," ","a","n"," ","e",
      "r","r","o","r"," ","g","e","n","e","r","a","t","i","n","g"," ","t","h",
      "e"," ","r","e","s","p","o","n","s","e","."," ","P","l","e","a","s","e",
      " ","t","r","y"," ","r","e","p","h","r","a","s","i","n","g"," ","y","o",
      "u","r"," ","q","u","e","s","t","i","o","n",".">>

error_msg ==
    <<"I","'","m"," ","e","x","p","e","r","i","e","n","c","i","n","g"," ","t",
      "e","c","h","n","i","c","a","l"," ","d","i","f","f","i","c","u","l","t",
      "i","e","s","."," ","P","l","e","a","s","e"," ","t","r","y"," ","a","g",
      "a","i","n"," ","i","n"," ","a"," ","m","o","m","e","n","t",".">>

PromptHead ==
    <<"B","a","s","e","d"," ","o","n"," ","t","h","e"," ","s","e","a","r","c",
      "h"," ","r","e","s","u","l","t","s"," ","b","e","l","o","w",","," ","p",
      "r","o","v","i","d","e"," ","a"," ","c","o","n","c","i","s","e",","," ",
      "w","e","l","l","-","s","t","r","u","c","t","u","r","e","d"," ","a","n",
      "s","w","e","r"," ","t","o"," ","t","h","e"," ","u","s","e","r","'","s",
      " ","q","u","e","s","t","i","o","n",".","\n","\n","S","E","A","R","C",
      "H"," ","R","E","S","U","L","T","S",":","\n">>

PromptMid ==
    <<"\n","\n","U","S","E","R"," ","Q","U","E","S","T","I","O","N",":"," ">>

PromptTail ==
    <<"\n","\n","I","n","s","t","r","u","c","t","i","o","n","s",":","\n","-",
      " ","K","e","e","p"," ","r","e","s","p","o","n","s","e"," ","u","n","d",
      "e","r"," ","3","0","0"," ","w","o","r","d","s","\n","-"," ","F","o",
      "c","u","s"," ","o","n"," ","t","h","e"," ","m","o","s","t"," ","r","e",
      "c","e","n","t"," ","a","n","d"," ","r","e","l","e","v","a","n","t"," ",
      "i","n","f","o","r","m","a","t","i","o","n","\n","-"," ","U","s","e",
      " ","c","l","e","a","r",","," ","s","t","r","u","c","t","u","r","e","d",
      " ","f","o","r","m","a","t","t","i","n","g","\n","-"," ","I","f"," ",
      "s","e","a","r","c","h"," ","r","e","s","u","l","t","s"," ","a","r","e",
      " ","l","i","m","i","t","e","d",","," ","a","c","k","n","o","w","l","e",
      "d","g","e"," ","t","h","i","s","\n">>

QuestionParis ==
    <<"W","h","a","t"," ","i","s"," ","t","h","e"," ","c","a","p","i","t","a",
      "l"," ","o","f"," ","F","r","a","n","c","e","?">>

QuestionHi ==
    <<"h","i">>

ResultParis ==
    <<"P","a","r","i","s"," ","i","s"," ","t","h","e"," ","c","a","p","i","t",
      "a","l"," ","o","f"," ","F","r","a","n","c","e","."," ","I","t"," ","h",
      "a","s"," ","a"," ","p","o","p","u","l","a","t","i","o","n"," ","o","f",
      " ","o","v","e","r"," ","2"," ","m","i","l","l","i","o","n","."," ","T",
      "h","e"," ","E","i","f","f","e","l"," ","T","o","w","e","r"," ","i","s",
      " ","l","o","c","a","t","e","d"," ","t","h","e","r","e",".">>

ResultShort ==
    <<"N","o"," ","r","e","s","u","l","t","s","."," ","T","r","y"," ","l","a",
      "t","e","r">>

AnswerParis ==
    <<"T","h","e"," ","c","a","p","i","t","a","l"," ","o","f"," ","F","r","a",
      "n","c","e"," ","i","s"," ","P","a","r","i","s",".">>

AnswerPlain ==
    <<"P","a","r","i","s">>

----------------------------------------------------------------------------
(* Turn Processor: chatbot(state) *)

\* lines 62-67: the user question taken from the last message
ExtractQuestion(last_message) ==
    IF HasContentAttr(last_message) THEN last_message.content
    ELSE IF last_message.kind = "dict"
         THEN IF last_message.has THEN last_message.content ELSE PyStr(<<>>)
         ELSE PyStr(Str(last_message.content))

\* lines 85-97: the f-string
BuildPrompt(optimized, question) ==
    PromptHead \o optimized \o PromptMid \o Str(question) \o PromptTail

\* line 103: getattr(lc_response, "content", str(lc_response))
ResponseContent(resp) ==
    IF HasContentAttr(resp) THEN resp.content ELSE PyStr(Str(resp.content))

\* line 111: state["messages"] + [ai_message]
ReturnOnlyNew(msgs, ai_message) == <<ai_message>>
ReturnMessages(msgs, ai_message) == msgs \o <<ai_message>>

SearchTexts  == {ResultParis, ResultShort}
LlmResponses == {AIMessage(PyStr(AnswerParis)), RawValue(PyStr(AnswerPlain)),
                 RawValue(PyInt(<<"7">>))}

\* lines 52-69: the greeting on an empty state, else the question; the slice
\* of line 69 raises when the question is not a str
ChatbotEnterNoGreeting ==
    /\ pc = "entry"
    /\ IF stateMessages = <<>>
       THEN /\ pc' = "raised"
            /\ UNCHANGED user_question
       ELSE LET q == ExtractQuestion(stateMessages[Len(stateMessages)])
            IN  /\ user_question' = q
                /\ pc' = IF Sliceable(q) THEN "question" ELSE "raised"
    /\ UNCHANGED <<condVars, uiVars, stateMessages, optimized_search_result,
                   system_prompt, lc_response, content, returned, callLog,
                   llmArg>>

ChatbotEnter ==
    /\ pc = "entry"
    /\ IF stateMessages = <<>>
       THEN /\ returned' = <<AIMessage(PyStr(Greeting))>>
            /\ pc' = "done"
            /\ UNCHANGED user_question
       ELSE LET q == ExtractQuestion(stateMessages[Len(stateMessages)])
            IN  /\ user_question' = q
                /\ pc' = IF Sliceable(q) THEN "question" ELSE "raised"
                /\ UNCHANGED returned
    /\ UNCHANGED <<condVars, uiVars, stateMessages, optimized_search_result,
                   system_prompt, lc_response, content, callLog, llmArg>>

\* line 74: search.invoke(user_question) is called
SearchInvoke ==
    /\ pc = "question"
    /\ callLog' = Append(callLog, "search.invoke")
    /\ pc' = "searching"
    /\ UNCHANGED <<condVars, uiVars, stateMessages, user_question,
                   optimized_search_result, system_prompt, lc_response,
                   content, returned, llmArg>>

\* lines 74-78, 85-97: the search returns raw text
SearchReturns(raw_search_result) ==
    /\ pc = "searching"
    /\ callLog' = Append(callLog, "search.return")
    /\ optimized_search_result' = extract_key_info(raw_search_result)
    /\ system_prompt' = BuildPrompt(optimized_search_result', user_question)
    /\ pc' = "prompt"
    /\ UNCHANGED <<condVars, uiVars, stateMessages, user_question,
                   lc_response, content, returned, llmArg>>

\* lines 80-82, 85-97: the search raises
SearchRaisesAborts ==
    /\ pc = "searching"
    /\ callLog' = Append(callLog, "search.raise")
    /\ pc' = "raised"
    /\ UNCHANGED <<condVars, uiVars, stateMessages, user_question,
                   optimized_search_result, system_prompt, lc_response,
                   content, returned, llmArg>>

SearchRaisesRetries ==
    /\ pc = "searching"
    /\ callLog' = Append(callLog, "search.raise")
    /\ pc' = "question"
    /\ UNCHANGED <<condVars, uiVars, stateMessages, user_question,
                   optimized_search_result, system_prompt, lc_response,
                   content, returned, llmArg>>

SearchRaises ==
    /\ pc = "searching"
    /\ callLog' = Append(callLog, "search.raise")
    /\ optimized_search_result' = SearchUnavailable
    /\ system_prompt' = BuildPrompt(optimized_search_result', user_question)
    /\ pc' = "prompt"
    /\ UNCHANGED <<condVars, uiVars, stateMessages, user_question,
                   lc_response, content, returned, llmArg>>

\* line 102: llm.invoke(system_prompt) is called
LlmInvoke ==
    /\ pc = "prompt"
    /\ callLog' = Append(callLog, "llm.invoke")
    /\ llmArg' = system_prompt
    /\ pc' = "generating"
    /\ UNCHANGED <<condVars, uiVars, stateMessages, user_question,
                   optimized_search_result, system_prompt, lc_response,
                   content, returned>>

\* lines 102-104, 110-111: the model returns
LlmReturns(resp) ==
    /\ pc = "generating"
    /\ callLog' = Append(callLog, "llm.return")
    /\ lc_response' = resp
    /\ content' = ResponseContent(resp)
    /\ returned' = ReturnMessages(stateMessages, AIMessage(content'))
    /\ pc' = "done"
    /\ UNCHANGED <<condVars, uiVars, stateMessages, user_question,
                   optimized_search_result, system_prompt, llmArg>>

\* lines 106-111: the model raises
LlmRaisesPropagates ==
    /\ pc = "generating"
    /\ callLog' = Append(callLog, "llm.raise")
    /\ pc' = "raised"
    /\ UNCHANGED <<condVars, uiVars, stateMessages, user_question,
                   optimized_search_result, system_prompt, lc_response,
                   content, returned, llmArg>>

LlmRaises ==
    /\ pc = "generating"
    /\ callLog' = Append(callLog, "llm.raise")
    /\ content' = PyStr(RephraseFallback)
    /\ returned' = ReturnMessages(stateMessages, AIMessage(content'))
    /\ pc' = "done"
    /\ UNCHANGED <<condVars, uiVars, stateMessages, user_question,
                   optimized_search_result, system_prompt, lc_response,
                   llmArg>>

ChatbotStep ==
    \/ ChatbotEnter
    \/ SearchInvoke
    \/ \E r \in SearchTexts : SearchReturns(r)
    \/ SearchRaises
    \/ LlmInvoke
    \/ \E resp \in LlmResponses : LlmReturns(resp)
    \/ LlmRaises

----------------------------------------------------------------------------
(* Direct invocations of chatbot on bounded states *)

MaxConv == 2

\* what a list handed to chatbot may hold
Items == {HumanMessage(PyStr(QuestionParis)), HumanMessage(PyStr(QuestionHi)),
          AIMessage(PyStr(AnswerParis)),
          Dict(PyStr(QuestionHi)), DictNoContent, Dict(PyNone),
          RawValue(PyStr(QuestionHi)), RawValue(PyInt(<<"7">>))}

States == UNION {[1..n -> Items] : n \in 0..MaxConv}

CondIdle ==
    /\ search_result = <<>>
    /\ out1 = <<>>
    /\ out2 = <<>>
    /\ cpc = "idle"

BotIdle ==
    /\ stateMessages = <<>>
    /\ pc = "idle"
    /\ user_question = PyNone
    /\ optimized_search_result = <<>>
    /\ system_prompt = <<>>
    /\ lc_response = NoResponse
    /\ content = PyNone
    /\ returned = <<>>
    /\ callLog = <<>>
    /\ llmArg = <<>>

\* chatbot(state) is entered with fresh locals
Enter(msgs) ==
    /\ stateMessages' = msgs
    /\ pc' = "entry"
    /\ user_question' = PyNone
    /\ optimized_search_result' = <<>>
    /\ system_prompt' = <<>>
    /\ lc_response' = NoResponse
    /\ content' = PyNone
    /\ returned' = <<>>
    /\ callLog' = <<>>
    /\ llmArg' = <<>>

Call(msgs) ==
    /\ pc \in {"idle", "done", "raised"}
    /\ Enter(msgs)
    /\ UNCHANGED <<condVars, uiVars>>

UiIdle ==
    /\ lc_messages = <<>>
    /\ uiPc = "idle"
    /\ before = <<>>
    /\ submitted = <<>>

Init == CondIdle /\ BotIdle /\ UiIdle

Next ==
    \/ \E msgs \in States : Call(msgs)
    \/ ChatbotStep

Spec == Init /\ [][Next]_vars

----------------------------------------------------------------------------
(* The condenser applied once and twice to bounded texts *)

InitCondense ==
    /\ search_result \in RawTexts
    /\ out1 = <<>>
    /\ out2 = <<>>
    /\ cpc = "start"
    /\ BotIdle
    /\ UiIdle

Condense ==
    /\ cpc = "start"
    /\ out1' = extract_key_info(search_result)
    /\ cpc' = "once"
    /\ UNCHANGED <<search_result, out2, botVars, uiVars>>

Recondense ==
    /\ cpc = "once"
    /\ out2' = extract_key_info(out1)
    /\ cpc' = "twice"
    /\ UNCHANGED <<search_result, out1, botVars, uiVars>>

NextCondense == Condense \/ Recondense

SpecCondense == InitCondense /\ [][NextCondense]_vars

----------------------------------------------------------------------------
(* Streamlit script: the chat input handler and the Clear button *)

MaxTurns == 2

Questions == {QuestionParis, QuestionHi}

\* the locals of chatbot are gone once graph.invoke is left
BotReset ==
    /\ stateMessages' = <<>>
    /\ pc' = "idle"
    /\ user_question' = PyNone
    /\ optimized_search_result' = <<>>
    /\ system_prompt' = <<>>
    /\ lc_response' = NoResponse
    /\ content' = PyNone
    /\ returned' = <<>>
    /\ callLog' = <<>>
    /\ llmArg' = <<>>

\* lines 143-152: a non-empty input is appended as a HumanMessage
Submit(user_input) ==
    /\ uiPc = "idle"
    /\ Len(lc_messages) < 2 * MaxTurns
    /\ before' = lc_messages
    /\ submitted' = user_input
    /\ lc_messages' = Append(lc_messages, HumanMessage(PyStr(user_input)))
    /\ uiPc' = "try"
    /\ UNCHANGED <<condVars, botVars>>

\* line 154: graph.invoke runs the one node, chatbot, on the conversation
GraphInvoke ==
    /\ uiPc = "try"
    /\ Enter(lc_messages)
    /\ uiPc' = "graph"
    /\ UNCHANGED <<condVars, lc_messages, before, submitted>>

\* line 154: graph.invoke raises, by itself or because chatbot raised
GraphRaises ==
    /\ \/ uiPc = "try"
       \/ uiPc = "graph" /\ pc = "raised"
    /\ uiPc' = "except"
    /\ BotReset
    /\ UNCHANGED <<condVars, lc_messages, before, submitted>>

\* line 155: the conversation is replaced by the messages of the result
GraphReturns ==
    /\ uiPc = "graph"
    /\ pc = "done"
    /\ lc_messages' = returned
    /\ uiPc' = "assigned"
    /\ BotReset
    /\ UNCHANGED <<condVars, before, submitted>>

\* lines 156-159: the reply is displayed
RenderReply ==
    /\ uiPc = "assigned"
    /\ uiPc' = "idle"
    /\ UNCHANGED <<condVars, botVars, lc_messages, before, submitted>>

\* lines 156-159: displaying the reply raises
RenderRaises ==
    /\ uiPc = "assigned"
    /\ uiPc' = "except"
    /\ UNCHANGED <<condVars, botVars, lc_messages, before, submitted>>

\* lines 161-165: the apology is appended
ExceptReplaces ==
    /\ uiPc = "except"
    /\ lc_messages' = <<AIMessage(PyStr(error_msg))>>
    /\ uiPc' = "idle"
    /\ UNCHANGED <<condVars, botVars, before, submitted>>

Except ==
    /\ uiPc = "except"
    /\ lc_messages' = Append(lc_messages, AIMessage(PyStr(error_msg)))
    /\ uiPc' = "idle"
    /\ UNCHANGED <<condVars, botVars, before, submitted>>

\* lines 172-174: Clear Conversation
Clear ==
    /\ uiPc = "idle"
    /\ lc_messages' = <<>>
    /\ before' = <<>>
    /\ submitted' = <<>>
    /\ UNCHANGED <<condVars, botVars, uiPc>>

NextUI ==
    \/ \E q \in Questions : Submit(q)
    \/ GraphInvoke
    \/ GraphRaises
    \/ ChatbotStep
    \/ GraphReturns
    \/ RenderReply
    \/ RenderRaises
    \/ Except
    \/ Clear

SpecUI == Init /\ [][NextUI]_vars

----------------------------------------------------------------------------
(* Properties *)

Last(s) == s[Len(s)]

IsPrefix(a, b) == Len(a) <= Len(b) /\ SubSeq(b, 1, Len(a)) = a

\* sub occurs in text
Contains(text, sub) ==
    \E i \in 0..(Len(text) - Len(sub)) : SubSeq(text, i + 1, i + Len(sub)) = sub

\* a conversation as State declares it: message objects with text content
IsConversation(msgs) ==
    \A i \in 1..Len(msgs) : msgs[i].kind = "message" /\ msgs[i].content.t = "str"

IsAssistantMessage(m) == m.kind = "message" /\ m.role = "assistant"

\* the call log of an invocation that made both calls
FullLogs ==
    {<<"search.invoke", s, "llm.invoke", l>> :
        s \in {"search.return", "search.raise"}, l \in {"llm.return", "llm.raise"}}

\* C1: chatbot on a non-empty conversation returns it with exactly one
\* assistant message appended, whatever the search and the model did, and
\* does return on every conversation of messages.
C1_OneAssistantMessage ==
    /\ (pc = "done" /\ stateMessages # <<>>) =>
          /\ Len(returned) = Len(stateMessages) + 1
          /\ SubSeq(returned, 1, Len(stateMessages)) = stateMessages
          /\ IsAssistantMessage(Last(returned))
          /\ callLog \in FullLogs
    /\ (stateMessages # <<>> /\ IsConversation(stateMessages)) => pc # "raised"

C1_Witness ==
    /\ pc = "done"
    /\ Len(stateMessages) = 2
    /\ IsConversation(stateMessages)
    /\ callLog = <<"search.invoke", "search.raise", "llm.invoke", "llm.raise">>
    /\ Len(returned) = 3

\* C2: chatbot on an empty conversation returns the one greeting message
\* and ends there, without a call to the search or to the model.
C2_GreetingOnEmpty ==
    (stateMessages = <<>> /\ pc \notin {"idle", "entry"}) =>
        /\ pc = "done"
        /\ returned = <<AIMessage(PyStr(Greeting))>>
        /\ callLog = <<>>

C2_Witness ==
    /\ pc = "done"
    /\ stateMessages = <<>>
    /\ Len(returned) = 1
    /\ IsAssistantMessage(returned[1])

\* C3: no invocation of chatbot ends by raising, whatever the shape of the
\* last message and whatever the search and the model did.
C3_NeverRaises == pc # "raised"

\* C4: when the search raises, the turn goes on: the condensed result is the
\* literal, the prompt holds the literal and the question, the model is
\* invoked with that prompt and the turn ends with an assistant message.
C4_SearchFailureContinues ==
    (Len(callLog) >= 2 /\ callLog[2] = "search.raise") =>
        /\ pc \in {"prompt", "generating", "done"}
        /\ optimized_search_result = SearchUnavailable
        /\ Contains(system_prompt, SearchUnavailable)
        /\ Contains(system_prompt, PromptMid \o Str(user_question))
        /\ pc = "prompt" => ENABLED LlmInvoke
        /\ pc \in {"generating", "done"} =>
              /\ callLog[3] = "llm.invoke"
              /\ llmArg = system_prompt
        /\ pc = "done" =>
              /\ Len(returned) = Len(stateMessages) + 1
              /\ IsAssistantMessage(Last(returned))

C4_Witness ==
    /\ pc = "done"
    /\ callLog = <<"search.invoke", "search.raise", "llm.invoke", "llm.return">>
    /\ Contains(llmArg, SearchUnavailable)
    /\ user_question = PyStr(QuestionParis)

\* C5: when the model raises, after a search that succeeded or failed, the
\* turn still returns and the appended message holds the rephrase literal;
\* when the model returns, it holds the text of the response.
C5_ModelFailureFallback ==
    (Len(callLog) = 4) =>
        /\ pc = "done"
        /\ IsAssistantMessage(Last(returned))
        /\ callLog[4] = "llm.raise" =>
              Last(returned).content = PyStr(RephraseFallback)
        /\ callLog[4] = "llm.return" =>
              Last(returned).content = PyStr(Str(lc_response.content))

C5_Witness ==
    /\ pc = "done"
    /\ callLog = <<"search.invoke", "search.return", "llm.invoke", "llm.raise">>
    /\ Last(returned).content = PyStr(RephraseFallback)

\* C10: in a turn the search is called once, has ended before the model is
\* called, the model is called once, and a failed call is not repeated.
C10_SequentialNoRetry ==
    /\ \E full \in FullLogs : IsPrefix(callLog, full)
    /\ (pc = "done" /\ stateMessages # <<>>) => callLog \in FullLogs
    /\ pc = "searching" <=> Len(callLog) = 1
    /\ pc = "generating" <=> Len(callLog) = 3

C10_Witness ==
    /\ pc = "done"
    /\ stateMessages # <<>>
    /\ callLog = <<"search.invoke", "search.raise", "llm.invoke", "llm.raise">>

----------------------------------------------------------------------------
(* Properties of the condenser *)

\* the fragments of text whose stripped length is at least n, by position
QualifyingAt(text, n) ==
    {k \in DOMAIN Split(text) : Len(Strip(Split(text)[k])) >= n}

\* the output described for a qualifying length of at least n: the first
\* MaxSentences qualifying fragments joined and terminated, else the prefix
Described(text, n) ==
    LET fr    == Split(text)
        q     == {k \in DOMAIN fr : Len(Strip(fr[k])) >= n}
        kept  == {k \in q : Cardinality({j \in q : j < k}) < MaxSentences}
        first == MinOf(kept)
        Piece(k) == IF k = first THEN Strip(fr[k])
                    ELSE <<Period, Space>> \o Strip(fr[k])
        RECURSIVE Glue(_)
        Glue(k) == IF k > Len(fr) THEN <<>>
                   ELSE (IF k \in kept THEN Piece(k) ELSE <<>>) \o Glue(k + 1)
    IN  IF q = {} THEN SubSeq(text, 1, IF Len(text) < FallbackChars
                                       THEN Len(text) ELSE FallbackChars)
        ELSE Glue(1) \o <<Period>>

\* C6 as stated: a fragment of 20 characters or more qualifies.
C6_AtLeastTwenty ==
    cpc # "start" => out1 = Described(search_result, MinSentenceLen)

\* C6 amended: a fragment qualifies exactly when its stripped length is more
\* than 20; the output is the first at most 5 qualifying fragments, stripped,
\* in order, joined by ". " and ended by "."; with none, the first 500
\* characters of the raw text.
C6_MoreThanTwenty ==
    cpc # "start" => out1 = Described(search_result, MinSentenceLen + 1)

C6_Witness ==
    /\ cpc = "once"
    /\ \E k \in DOMAIN Split(search_result) :
          Len(Strip(Split(search_result)[k])) = MinSentenceLen
    /\ Cardinality(QualifyingAt(search_result, MinSentenceLen + 1)) > MaxSentences
    /\ Cardinality(QualifyingAt(out1, MinSentenceLen + 1)) = MaxSentences

\* C7: on a text with at most 5 qualifying sentences, condensing the
\* condensed text gives the condensed text again.
C7_Idempotent ==
    (cpc = "twice" /\
     Cardinality(QualifyingAt(search_result, MinSentenceLen + 1)) <= MaxSentences)
        => out2 = out1

C7_Witness ==
    /\ cpc = "twice"
    /\ Cardinality(QualifyingAt(search_result, MinSentenceLen + 1)) = 2
    /\ out1 # search_result
    /\ out2 = out1

----------------------------------------------------------------------------
(* Properties of the chat handler *)

\* C8: once a submitted input has been handled, the conversation is the one
\* before the submission, the user's message and exactly one assistant
\* message, also when the guarded block failed.
C8_TwoMessagesPerInput ==
    (uiPc = "idle" /\ submitted # <<>>) =>
        /\ Len(lc_messages) = Len(before) + 2
        /\ IsPrefix(before, lc_messages)
        /\ lc_messages[Len(before) + 1] = HumanMessage(PyStr(submitted))
        /\ IsAssistantMessage(Last(lc_messages))

\* C9 as stated: the conversation changes only when cleared or when the
\* Turn Processor's result is stored, and then only by appending.
C9_OnlyTurnProcessor ==
    [][lc_messages' # lc_messages =>
          \/ uiPc = "idle" /\ uiPc' = "idle" /\ lc_messages' = <<>>
          \/ uiPc = "graph" /\ IsPrefix(lc_messages, lc_messages')]_vars

\* C9 amended: apart from Clear, every step that changes the conversation
\* appends one message to it; the steps are the handler's append of the
\* user's message, the storing of chatbot's result and the apology.
C9_AppendOnly ==
    [][lc_messages' # lc_messages =>
          \/ uiPc = "idle" /\ uiPc' = "idle" /\ lc_messages' = <<>>
          \/ /\ Len(lc_messages') = Len(lc_messages) + 1
             /\ IsPrefix(lc_messages, lc_messages')
             /\ \/ uiPc = "idle" /\ Last(lc_messages') = HumanMessage(PyStr(submitted'))
                \/ uiPc = "graph" /\ IsAssistantMessage(Last(lc_messages'))
                \/ uiPc = "except" /\ Last(lc_messages') = AIMessage(PyStr(error_msg))]_vars

C9_Witness ==
    /\ uiPc = "idle"
    /\ Len(before) >= 2
    /\ Len(lc_messages) = Len(before) + 2
    /\ Last(lc_messages) = AIMessage(PyStr(error_msg))

====
